---- MODULE Spec2Model ----
(***************************************************************************)
(* Model of the PDF ingestion pipeline of build_db.py: text extraction     *)
(* through the external converter, the regular-expression parsers, the     *)
(* document pipeline and the SQLite persistence of the import results.     *)
(* Texts are sequences of one-character strings.                           *)
(***************************************************************************)
EXTENDS Integers, Sequences, FiniteSets, TLC

VARIABLES
    pc,          \* position of build_database: "idle", "load", "upsert", "children"
    run,         \* number of build_database runs started (the clock of created_at)
    source_dir,  \* directory of the current run: "in" or "pdfs" (the storage dir)
    files,       \* sorted list of the run's PDF files: [name, text]
    results,     \* list of PdfImportResult built by load_pdf_results
    visited,     \* number of files load_pdf_results has handed to process_pdf
    persisted,   \* number of results whose unit of work is committed in this run
    process_id,  \* local of persist_import_results: id returned by _get_process_id
    err,         \* exception that ended the last run (NoError when none)
    storage,     \* storage directory "pdfs": file name -> content
    scratch,     \* temporary directory "tmp": stems whose .txt file exists
    schema,      \* whether the tables exist in the database file
    processes,   \* committed rows of table processes
    events,      \* committed rows of table events
    documents,   \* committed rows of table documents
    appointments, \* committed rows of table appointments
    seq,         \* sqlite_sequence: last AUTOINCREMENT id handed out per table
    text,        \* input of a parser call (parser specifications)
    out,         \* result of a parser call (parser specifications)
    calls        \* outcomes of successive extract_text_from_pdf calls (extractor specification)

dbvars   == <<schema, processes, events, documents, seq>>
fsvars   == <<storage, scratch>>
runvars  == <<pc, run, source_dir, files, results, visited, persisted, process_id, err>>
parsevars == <<text, out>>
vars == <<pc, run, source_dir, files, results, visited, persisted, process_id, err,
          storage, scratch, schema, processes, events, documents, appointments, seq,
          text, out, calls>>

----------------------------------------------------------------------------
(* Character classes of Python's re module, on the characters the texts use *)

Digits == {"0", "1", "2", "3", "4", "5", "6", "7", "8", "9"}

IsDigit(c) == c \in Digits

\* \s
IsSpace(c) == c \in {" ", "\n"}

\* \w
IsWord(c) == c \in Digits \cup {"P", "Q", "a", "w", "x", "y", "z", "_"}

\* str.strip()
RECURSIVE LStrip(_)
LStrip(s) == IF s # <<>> /\ IsSpace(Head(s)) THEN LStrip(Tail(s)) ELSE s

RECURSIVE RStrip(_)
RStrip(s) ==
    IF s # <<>> /\ IsSpace(s[Len(s)]) THEN RStrip(SubSeq(s, 1, Len(s) - 1)) ELSE s

Strip(s) == RStrip(LStrip(s))

\* length of the longest run of \s characters that starts at position p
SpaceRun(t, p) ==
    CHOOSE n \in 0..(Len(t) + 1 - p) :
        /\ \A i \in p..(p + n - 1) : IsSpace(t[i])
        /\ (p + n > Len(t) \/ ~IsSpace(t[p + n]))

\* last position of the line that holds position q (q - 1 when that line is empty)
LineEnd(t, q) ==
    CHOOSE e \in (q - 1)..Len(t) :
        /\ \A i \in q..e : t[i] # "\n"
        /\ (e = Len(t) \/ t[e + 1] = "\n")

\* ^ under re.MULTILINE
AtLineStart(t, p) == p = 1 \/ t[p - 1] = "\n"

\* \d{2}/\d{2}/\d{4} at position p
DatePattern == <<"d", "d", "/", "d", "d", "/", "d", "d", "d", "d">>

MatchesPattern(t, p, pat) ==
    /\ p >= 1
    /\ p + Len(pat) - 1 <= Len(t)
    /\ \A i \in 1..Len(pat) :
          IF pat[i] = "d" THEN IsDigit(t[p + i - 1]) ELSE t[p + i - 1] = pat[i]

NoMatch == [ok |-> FALSE, date |-> <<>>, description |-> <<>>, end |-> 0]

----------------------------------------------------------------------------
(* PROCESS_NUMBER_RE and _parse_case_number                                 *)

CasePattern ==
    <<"d", "d", "d", "d", "d", "d", "d", "-", "d", "d", ".", "d", "d", "d", "d",
      ".", "d", ".", "d", "d", ".", "d", "d", "d", "d">>

\* the pattern without its \b anchors
ProcessNumberNoBoundary(t, p) == MatchesPattern(t, p, CasePattern)

\* \b\d{7}-\d{2}\.\d{4}\.\d\.\d{2}\.\d{4}\b matches at position p
PROCESS_NUMBER_RE(t, p) ==
    /\ MatchesPattern(t, p, CasePattern)
    /\ (p = 1 \/ ~IsWord(t[p - 1]))
    /\ (p + Len(CasePattern) > Len(t) \/ ~IsWord(t[p + Len(CasePattern)]))

CaseNumberNotFound ==
    [kind |-> "BuildDbError", cause |-> "none", template |-> "case number not found",
     name |-> 0, stderr |-> ""]

\* the last match from position p on instead of the first
RECURSIVE SearchLastCaseNumber(_, _)
SearchLastCaseNumber(t, p) ==
    IF p > Len(t) THEN 0
    ELSE LET later == SearchLastCaseNumber(t, p + 1)
         IN  IF later # 0 THEN later
             ELSE IF PROCESS_NUMBER_RE(t, p) THEN p ELSE 0

\* PROCESS_NUMBER_RE.search(text) scanning from position p: 0 when there is no match
RECURSIVE SearchCaseNumber(_, _)
SearchCaseNumber(t, p) ==
    IF p > Len(t) THEN 0
    ELSE IF PROCESS_NUMBER_RE(t, p) THEN p
    ELSE SearchCaseNumber(t, p + 1)

_parse_case_number(t) ==
    LET p == SearchCaseNumber(t, 1)
    IN  IF p = 0 THEN [raised |-> TRUE, value |-> <<>>]
        ELSE [raised |-> FALSE, value |-> SubSeq(t, p, p + Len(CasePattern) - 1)]

----------------------------------------------------------------------------
(* MOVEMENT_RE, the fallback expression and _parse_events                   *)

\* ^(?P<date>\d{2}/\d{2}/\d{4})\s+-\s+(?P<description>.+)$ tried at position p.
\* The first \s+ must take the whole run (a "-" follows it); the second \s+ is
\* greedy and backtracks until a character other than a newline follows it.
MOVEMENT_RE(t, p) ==
    IF ~(AtLineStart(t, p) /\ MatchesPattern(t, p, DatePattern)) THEN NoMatch
    ELSE
      LET a == p + Len(DatePattern)
          k == SpaceRun(t, a)
      IN  IF ~(k >= 1 /\ a + k <= Len(t) /\ t[a + k] = "-") THEN NoMatch
          ELSE
            LET b  == a + k + 1
                r  == SpaceRun(t, b)
                ms == {m \in 1..r : b + m <= Len(t) /\ t[b + m] # "\n"}
            IN  IF ms = {} THEN NoMatch
                ELSE
                  LET m == CHOOSE x \in ms : \A y \in ms : y <= x
                      q == b + m
                      e == LineEnd(t, q)
                  IN  [ok |-> TRUE,
                       date |-> SubSeq(t, p, a - 1),
                       description |-> SubSeq(t, q, e),
                       end |-> e + 1]

\* ^(\d{2}/\d{2}/\d{4})\s+(.*)$ tried at position p
DateRe(t, p) ==
    IF ~(AtLineStart(t, p) /\ MatchesPattern(t, p, DatePattern)) THEN NoMatch
    ELSE
      LET a == p + Len(DatePattern)
          r == SpaceRun(t, a)
      IN  IF r < 1 THEN NoMatch
          ELSE
            LET q == a + r
                e == LineEnd(t, q)
            IN  [ok |-> TRUE,
                 date |-> SubSeq(t, p, a - 1),
                 description |-> SubSeq(t, q, e),
                 end |-> e + 1]

\* [(m.group("date"), m.group("description").strip()) for m in MOVEMENT_RE.finditer(text)]
RECURSIVE MovementEvents(_, _)
MovementEvents(t, p) ==
    IF p > Len(t) THEN <<>>
    ELSE LET m == MOVEMENT_RE(t, p)
         IN  IF m.ok
             THEN <<(<<m.date, Strip(m.description)>>)>> \o MovementEvents(t, m.end)
             ELSE MovementEvents(t, p + 1)

\* the loop over date_re.finditer(text)
RECURSIVE FallbackEvents(_, _)
FallbackEvents(t, p) ==
    IF p > Len(t) THEN <<>>
    ELSE LET m == DateRe(t, p)
         IN  IF m.ok
             THEN <<(<<m.date, Strip(m.description)>>)>> \o FallbackEvents(t, m.end)
             ELSE FallbackEvents(t, p + 1)

ParseEventsSupplementing(t) == MovementEvents(t, 1) \o FallbackEvents(t, 1)

_parse_events(t) ==
    LET evs == MovementEvents(t, 1)
    IN  IF evs # <<>> THEN evs ELSE FallbackEvents(t, 1)

----------------------------------------------------------------------------
(* _derive_title                                                            *)

TitleMax == 200

\* "Processo sem título", without the accent
PlaceholderTitle ==
    <<"P", "r", "o", "c", "e", "s", "s", "o", " ", "s", "e", "m", " ",
      "t", "i", "t", "u", "l", "o">>

RECURSIVE FirstNonBlankLine(_, _)
FirstNonBlankLine(t, p) ==
    IF p > Len(t) THEN <<>>
    ELSE LET e == LineEnd(t, p)
             cleaned == Strip(SubSeq(t, p, e))
         IN  IF cleaned # <<>> THEN cleaned ELSE FirstNonBlankLine(t, e + 2)

_derive_title(t) ==
    LET cleaned == FirstNonBlankLine(t, 1)
    IN  IF cleaned # <<>>
        THEN SubSeq(cleaned, 1, IF Len(cleaned) < TitleMax THEN Len(cleaned) ELSE TitleMax)
        ELSE PlaceholderTitle

----------------------------------------------------------------------------
(* Bounds and the documents of the model                                    *)

MaxRuns == 2

\* the file names a source directory may hold, in sorted order
Names == {1, 2}

StorageDir == "pdfs"

NumA ==
    <<"1", "2", "3", "4", "5", "6", "7", "-", "8", "9", ".", "2", "0", "2", "4",
      ".", "1", ".", "2", "3", ".", "4", "5", "6", "7">>

NumB ==
    <<"7", "6", "5", "4", "3", "2", "1", "-", "0", "0", ".", "1", "9", "9", "9",
      ".", "8", ".", "2", "6", ".", "0", "0", "0", "1">>

Date1 == <<"0", "1", "/", "0", "2", "/", "2", "0", "2", "4">>

Date2 == <<"0", "3", "/", "0", "4", "/", "2", "0", "2", "5">>

\* title P, case A, two dash-style movements
TextA1 ==
    <<"P", "\n">> \o NumA \o <<"\n">> \o Date1 \o <<" ", "-", " ", "x", "\n">>
        \o Date2 \o <<" ", "-", " ", "y">>

\* title Q, case A again, one bare-date movement
TextA2 == <<"Q", "\n">> \o NumA \o <<"\n">> \o Date2 \o <<" ", "z">>

\* case B, one dash-style movement
TextB == NumB \o <<"\n">> \o Date1 \o <<" ", "-", " ", "w">>

\* no case number: the digit run is one digit too long
TextNone == <<"P", " ", "1">> \o NumA \o <<"\n">> \o Date1 \o <<" ", "-", " ", "x">>

DocTexts == {TextA1, TextA2, TextB, TextNone}

Stderrs == {"syntax error", "killed"}

----------------------------------------------------------------------------
(* Exceptions                                                               *)

NoError ==
    [kind |-> "none", cause |-> "none", template |-> "", name |-> 0, stderr |-> ""]

\* raise PdfTextExtractionError("... 'pdftotext' não está disponível ...") from exc
ExtractionUnavailable ==
    [kind |-> "PdfTextExtractionError", cause |-> "FileNotFoundError",
     template |-> "pdftotext unavailable", name |-> 0, stderr |-> ""]

\* the missing converter escaping as its own exception class
UnavailableOwnKind ==
    [kind |-> "FileNotFoundError", cause |-> "none",
     template |-> "pdftotext unavailable", name |-> 0, stderr |-> ""]

\* raise PdfTextExtractionError(f"Falha ao converter '{name}' para texto: {stderr!r}") from exc
ExtractionFailed(name, stderr) ==
    [kind |-> "PdfTextExtractionError", cause |-> "CalledProcessError",
     template |-> "conversion failed", name |-> name, stderr |-> stderr]

\* destination.read_text raising
ReadError ==
    [kind |-> "OSError", cause |-> "none", template |-> "read failed",
     name |-> 0, stderr |-> ""]

\* a statement or commit of the connection raising
SqliteError ==
    [kind |-> "sqlite3.Error", cause |-> "none", template |-> "database error",
     name |-> 0, stderr |-> ""]

----------------------------------------------------------------------------
(* extract_text_from_pdf                                                    *)

\* What one subprocess.run of the converter and the read that follows can do:
\* the executable is missing; it exits non-zero, having created the
\* destination or not; it exits zero and the destination is read or the read
\* raises.
ConverterRuns ==
    {[status |-> "missing", wrote |-> FALSE, readable |-> FALSE, stderr |-> ""]}
    \cup {[status |-> "nonzero", wrote |-> w, readable |-> FALSE, stderr |-> s] :
             w \in BOOLEAN, s \in Stderrs}
    \cup {[status |-> "exit0", wrote |-> TRUE, readable |-> r, stderr |-> ""] :
             r \in BOOLEAN}

ExtractMissingOwnKind(content, name, stem, env, tmp) ==
    IF env.status = "missing"
    THEN [raised |-> UnavailableOwnKind, value |-> <<>>, tmp |-> tmp]
    ELSE IF env.status = "nonzero"
    THEN [raised |-> ExtractionFailed(name, env.stderr), value |-> <<>>,
          tmp |-> IF env.wrote THEN tmp \cup {stem} ELSE tmp]
    ELSE IF ~env.readable
    THEN [raised |-> ReadError, value |-> <<>>, tmp |-> tmp \cup {stem}]
    ELSE [raised |-> NoError, value |-> content, tmp |-> tmp \ {stem}]

\* content: what the converter extracts from the PDF; name: pdf_path.name;
\* stem: the destination's stem; tmp: the scratch files that exist before the call.
\* Returns the exception raised (NoError on return), the text returned and the
\* scratch files that exist afterwards.
extract_text_from_pdf(content, name, stem, env, tmp) ==
    IF env.status = "missing"
    THEN [raised |-> ExtractionUnavailable, value |-> <<>>, tmp |-> tmp]
    ELSE IF env.status = "nonzero"
    THEN [raised |-> ExtractionFailed(name, env.stderr), value |-> <<>>,
          tmp |-> IF env.wrote THEN tmp \cup {stem} ELSE tmp]
    ELSE IF ~env.readable
    THEN [raised |-> ReadError, value |-> <<>>, tmp |-> tmp \cup {stem}]
    ELSE [raised |-> NoError, value |-> content, tmp |-> tmp \ {stem}]

----------------------------------------------------------------------------
(* process_pdf, _iter_pdf_files, load_pdf_results                           *)

\* the files of a directory by descending name
RECURSIVE IterDescending(_)
IterDescending(dir) ==
    IF DOMAIN dir = {} THEN <<>>
    ELSE LET n == CHOOSE x \in DOMAIN dir : \A y \in DOMAIN dir : x >= y
         IN  <<[name |-> n, text |-> dir[n]]>>
                 \o IterDescending([m \in DOMAIN dir \ {n} |-> dir[m]])

\* sorted(directory.glob("*.pdf")) of a directory given as file name -> content
RECURSIVE _iter_pdf_files(_)
_iter_pdf_files(dir) ==
    IF DOMAIN dir = {} THEN <<>>
    ELSE LET n == CHOOSE x \in DOMAIN dir : \A y \in DOMAIN dir : x <= y
         IN  <<[name |-> n, text |-> dir[n]]>>
                 \o _iter_pdf_files([m \in DOMAIN dir \ {n} |-> dir[m]])

\* shutil.copy2(pdf_path, target_path) unless the source is the target
CopyToStorage(doc, dir, store) ==
    IF dir # StorageDir THEN (doc.name :> doc.text) @@ store ELSE store

\* One call of process_pdf: the storage and scratch directories afterwards, the
\* exception raised (NoError on return) and the PdfImportResult returned.
process_pdf(doc, dir, env, store, tmp) ==
    LET store1 == CopyToStorage(doc, dir, store)
        x      == extract_text_from_pdf(store1[doc.name], doc.name, doc.name, env, tmp)
        number == _parse_case_number(x.value)
    IN  IF x.raised # NoError
        THEN [storage |-> store1, scratch |-> x.tmp, raised |-> x.raised, result |-> <<>>]
        ELSE IF number.raised
        THEN [storage |-> store1, scratch |-> x.tmp, raised |-> CaseNumberNotFound,
              result |-> <<>>]
        ELSE [storage |-> store1, scratch |-> x.tmp, raised |-> NoError,
              result |-> <<[process_number |-> number.value,
                            title |-> _derive_title(x.value),
                            events |-> _parse_events(x.value),
                            document_text |-> x.value,
                            stored_path |-> doc.name]>>]

\* What the loop of load_pdf_results does with the outcome o of process_pdf
\* when it skips a failing document and goes on
LoadStepSkipping(o, rs) ==
    IF o.raised = NoError
    THEN [pc |-> "load", results |-> rs \o o.result, err |-> NoError]
    ELSE [pc |-> "load", results |-> rs, err |-> o.raised]

\* The loop of load_pdf_results when a failing document ends the loading but
\* the results loaded before it are still handed to persist_import_results
LoadStepKeepingLoaded(o, rs) ==
    IF o.raised = NoError
    THEN [pc |-> "load", results |-> rs \o o.result, err |-> NoError]
    ELSE [pc |-> IF rs = <<>> THEN "idle" ELSE "upsert", results |-> rs, err |-> o.raised]

\* The loop of load_pdf_results after one process_pdf call with outcome o: the
\* result is appended, or the exception leaves load_pdf_results and
\* build_database before the database is opened.
LoadStep(o, rs) ==
    IF o.raised = NoError
    THEN [pc |-> "load", results |-> rs \o o.result, err |-> NoError]
    ELSE [pc |-> "idle", results |-> rs, err |-> o.raised]

----------------------------------------------------------------------------
(* ensure_schema, _get_process_id, persist_import_results                   *)

\* INSERT OR REPLACE: the conflicting row is deleted and a new one inserted
UpsertReplacing(rows, id, number, title, pdf_path, now) ==
    {p \in rows : p.number # number}
        \cup {[id |-> id, number |-> number, title |-> title, pdf_path |-> pdf_path,
               created_at |-> now]}

\* DO UPDATE SET that also resets created_at to the time of the import
UpsertStamping(rows, id, number, title, pdf_path, now) ==
    IF \E p \in rows : p.number = number
    THEN {IF p.number = number
          THEN [p EXCEPT !.title = title, !.pdf_path = pdf_path, !.created_at = now]
          ELSE p : p \in rows}
    ELSE rows \cup {[id |-> id, number |-> number, title |-> title,
                     pdf_path |-> pdf_path, created_at |-> now]}

\* INSERT INTO processes ... ON CONFLICT(number) DO UPDATE SET title, pdf_path;
\* id is the rowid the statement allocates
Upsert(rows, id, number, title, pdf_path, now) ==
    IF \E p \in rows : p.number = number
    THEN {IF p.number = number
          THEN [p EXCEPT !.title = title, !.pdf_path = pdf_path]
          ELSE p : p \in rows}
    ELSE rows \cup {[id |-> id, number |-> number, title |-> title,
                     pdf_path |-> pdf_path, created_at |-> now]}

\* DELETE without its WHERE clause
DeleteAll(rows, pid) == {}

\* the DELETE left out: new rows are appended to the old ones
DeleteNothing(rows, pid) == rows

\* DELETE FROM <table> WHERE process_id = ?
DeleteWhere(rows, pid) == {r \in rows : r.process_id # pid}

\* executemany("INSERT INTO events (process_id, event_date, description) ...")
InsertEvents(rows, pid, evs, last) ==
    rows \cup {[id |-> last + i, process_id |-> pid,
                event_date |-> evs[i][1], description |-> evs[i][2]] : i \in 1..Len(evs)}

\* INSERT INTO documents (process_id, file_name, content, created_at)
InsertDocument(rows, id, pid, r, now) ==
    rows \cup {[id |-> id, process_id |-> pid, file_name |-> r.stored_path,
                content |-> r.document_text, created_at |-> now]}

----------------------------------------------------------------------------
(* build_database                                                           *)

Unparsed == [done |-> FALSE, raised |-> FALSE, value |-> <<>>]

Init ==
    /\ pc = "idle"
    /\ run = 0
    /\ source_dir = "in"
    /\ files = <<>>
    /\ results = <<>>
    /\ visited = 0
    /\ persisted = 0
    /\ process_id = 0
    /\ err = NoError
    /\ storage = <<>>
    /\ scratch = {}
    /\ schema = FALSE
    /\ processes = {}
    /\ events = {}
    /\ documents = {}
    /\ appointments = {}
    /\ seq = [processes |-> 0, events |-> 0, documents |-> 0, appointments |-> 0]
    /\ text = <<>>
    /\ out = Unparsed
    /\ calls = <<>>

\* build_database is called on a source directory: any set of PDF files, or
\* the storage directory itself
StartRun ==
    /\ pc = "idle"
    /\ run < MaxRuns
    /\ \E dir \in {"in", StorageDir} :
          /\ source_dir' = dir
          /\ IF dir = StorageDir
             THEN files' = _iter_pdf_files(storage)
             ELSE \E S \in SUBSET Names : \E f \in [S -> DocTexts] :
                      files' = _iter_pdf_files(f)
    /\ run' = run + 1
    /\ pc' = "load"
    /\ results' = <<>>
    /\ visited' = 0
    /\ persisted' = 0
    /\ process_id' = 0
    /\ err' = NoError
    /\ UNCHANGED <<fsvars, dbvars, parsevars, calls, appointments>>

\* one iteration of the loop of load_pdf_results
ProcessPdf ==
    /\ pc = "load"
    /\ visited < Len(files)
    /\ \E env \in ConverterRuns :
          LET o == process_pdf(files[visited + 1], source_dir, env, storage, scratch)
              n == LoadStep(o, results)
          IN  /\ storage' = o.storage
              /\ scratch' = o.scratch
              /\ pc' = n.pc
              /\ results' = n.results
              /\ err' = n.err
    /\ visited' = visited + 1
    /\ UNCHANGED <<run, source_dir, files, persisted, process_id, dbvars, parsevars, calls, appointments>>

\* sqlite3.connect, ensure_schema and the entry of persist_import_results;
\* with no result the connection is closed at once
EnsureSchema ==
    /\ pc = "load"
    /\ visited = Len(files)
    /\ schema' = TRUE
    /\ pc' = IF results = <<>> THEN "idle" ELSE "upsert"
    /\ UNCHANGED <<run, source_dir, files, results, visited, persisted, process_id, err,
                   fsvars, processes, events, documents, seq, parsevars, calls, appointments>>

\* _get_process_id for the next result: the upsert, its commit and the SELECT
GetProcessId ==
    /\ pc = "upsert"
    /\ LET r    == results[persisted + 1]
           id   == seq.processes + 1
           rows == Upsert(processes, id, r.process_number, r.title, r.stored_path, run)
       IN  /\ processes' = rows
           /\ seq' = [seq EXCEPT !.processes = id]
           /\ IF \E p \in rows : p.number = r.process_number
              THEN /\ process_id' = (CHOOSE p \in rows : p.number = r.process_number).id
                   /\ pc' = "children"
                   /\ err' = err
              ELSE /\ process_id' = process_id
                   /\ pc' = "idle"
                   /\ err' = [CaseNumberNotFound EXCEPT !.template = "process id not found"]
    /\ UNCHANGED <<run, source_dir, files, results, visited, persisted,
                   fsvars, schema, events, documents, parsevars, calls, appointments>>

\* the rest of the loop body of persist_import_results: both DELETEs, the
\* INSERTs and the commit; after the last result the connection is closed
ReplaceChildren ==
    /\ pc = "children"
    /\ LET r == results[persisted + 1]
       IN  /\ events' = InsertEvents(DeleteWhere(events, process_id), process_id,
                                     r.events, seq.events)
           /\ documents' = InsertDocument(DeleteWhere(documents, process_id),
                                          seq.documents + 1, process_id, r, run)
           /\ seq' = [seq EXCEPT !.events = @ + Len(r.events), !.documents = @ + 1]
    /\ persisted' = persisted + 1
    /\ pc' = IF persisted + 1 = Len(results) THEN "idle" ELSE "upsert"
    /\ UNCHANGED <<run, source_dir, files, results, visited, process_id, err,
                   fsvars, schema, processes, parsevars, calls, appointments>>

\* A statement or commit raises while a result is persisted: the exception
\* leaves persist_import_results, the finally clause closes the connection and
\* what was not committed is rolled back.
PersistFail ==
    /\ pc \in {"upsert", "children"}
    /\ pc' = "idle"
    /\ err' = SqliteError
    /\ UNCHANGED <<run, source_dir, files, results, visited, persisted, process_id,
                   fsvars, dbvars, parsevars, calls, appointments>>

Next ==
    \/ StartRun
    \/ ProcessPdf
    \/ EnsureSchema
    \/ GetProcessId
    \/ ReplaceChildren
    \/ PersistFail

Spec == Init /\ [][Next]_vars

----------------------------------------------------------------------------
(* The browsing application working on the database while imports run        *)

MaxAppRuns == 1

MaxAppointments == 2

\* build_database is started while the application is in use
StartRunApp ==
    /\ run < MaxAppRuns
    /\ StartRun

\* Database.add_appointment for the process selected in the list: INSERT INTO
\* appointments (process_id, title, start_at, notes) and commit
AddAppointment ==
    /\ seq.appointments < MaxAppointments
    /\ \E p \in processes :
          appointments' = appointments \cup
              {[id |-> seq.appointments + 1, process_id |-> p.id,
                title |-> "audiencia", start_at |-> Date1, notes |-> ""]}
    /\ seq' = [seq EXCEPT !.appointments = @ + 1]
    /\ UNCHANGED <<runvars, fsvars, schema, processes, events, documents, parsevars, calls>>

\* Database.delete_appointment: DELETE FROM appointments WHERE id = ? and commit
DeleteAppointment ==
    /\ \E a \in appointments :
          appointments' = {b \in appointments : b.id # a.id}
    /\ UNCHANGED <<runvars, fsvars, dbvars, parsevars, calls>>

NextApp ==
    \/ StartRunApp
    \/ ProcessPdf
    \/ EnsureSchema
    \/ GetProcessId
    \/ ReplaceChildren
    \/ PersistFail
    \/ AddAppointment
    \/ DeleteAppointment

SpecApp == Init /\ [][NextApp]_vars

----------------------------------------------------------------------------
(* extract_text_from_pdf called on its own, call after call                  *)

MaxCalls == 2

InitIdle ==
    /\ pc = "idle"
    /\ run = 0
    /\ source_dir = "in"
    /\ files = <<>>
    /\ results = <<>>
    /\ visited = 0
    /\ persisted = 0
    /\ process_id = 0
    /\ err = NoError
    /\ storage = <<>>
    /\ schema = FALSE
    /\ processes = {}
    /\ events = {}
    /\ documents = {}
    /\ appointments = {}
    /\ seq = [processes |-> 0, events |-> 0, documents |-> 0, appointments |-> 0]

InitExtract ==
    /\ InitIdle
    /\ scratch = {}
    /\ text = <<>>
    /\ out = Unparsed
    /\ calls = <<>>

ExtractCall ==
    /\ Len(calls) < MaxCalls
    /\ \E name \in Names, env \in ConverterRuns :
          LET x == extract_text_from_pdf(TextB, name, name, env, scratch)
          IN  /\ calls' = Append(calls, [status |-> env.status, stderr |-> env.stderr,
                                         name |-> name, raised |-> x.raised,
                                         value |-> x.value])
              /\ scratch' = x.tmp
    /\ UNCHANGED <<runvars, storage, dbvars, parsevars, appointments>>

NextExtract == ExtractCall

SpecExtract == InitExtract /\ [][NextExtract]_vars

----------------------------------------------------------------------------
(* The parsers called on their own, on texts made of a few pieces            *)

MaxPieces == 5

MaxCasePieces == 4

\* a date, single characters, the rest of a dash-form line and the rest of a
\* bare-date line
EventPieces ==
    {Date1, <<" ">>, <<"-">>, <<"\n">>, <<"x">>, <<" ", "-", " ", "y">>, <<" ", "z">>}

CasePieces == {NumA, NumB, <<"1">>, <<"a">>, <<" ">>, <<".">>, <<"_">>}

RECURSIVE Texts(_, _)
Texts(pieces, n) ==
    IF n = 0 THEN {<<>>}
    ELSE LET shorter == Texts(pieces, n - 1)
         IN  shorter \cup {t \o p : t \in shorter, p \in pieces}

InitEvents ==
    /\ InitIdle
    /\ scratch = {}
    /\ calls = <<>>
    /\ text \in Texts(EventPieces, MaxPieces)
    /\ out = Unparsed

ParseEvents ==
    /\ ~out.done
    /\ out' = [done |-> TRUE, raised |-> FALSE, value |-> _parse_events(text)]
    /\ UNCHANGED <<runvars, fsvars, dbvars, text, calls, appointments>>

NextEvents == ParseEvents

SpecEvents == InitEvents /\ [][NextEvents]_vars

InitCase ==
    /\ InitIdle
    /\ scratch = {}
    /\ calls = <<>>
    /\ text \in Texts(CasePieces, MaxCasePieces)
    /\ out = Unparsed

ParseCaseNumber ==
    /\ ~out.done
    /\ LET r == _parse_case_number(text)
       IN  out' = [done |-> TRUE, raised |-> r.raised, value |-> r.value]
    /\ UNCHANGED <<runvars, fsvars, dbvars, text, calls, appointments>>

NextCase == ParseCaseNumber

SpecCase == InitCase /\ [][NextCase]_vars

----------------------------------------------------------------------------
(* Reading the tables                                                        *)

\* the rows of a table in ascending id order
RECURSIVE RowsById(_)
RowsById(rows) ==
    IF rows = {} THEN <<>>
    ELSE LET r == CHOOSE x \in rows : \A y \in rows : x.id <= y.id
         IN  <<r>> \o RowsById(rows \ {r})

ProcessRows(number) == {p \in processes : p.number = number}

EventRows(pid) == {e \in events : e.process_id = pid}

DocumentRows(pid) == {d \in documents : d.process_id = pid}

\* the (event_date, description) pairs of a process in ascending id order
EventPairs(pid) ==
    LET rows == RowsById(EventRows(pid))
    IN  [i \in 1..Len(rows) |-> <<rows[i].event_date, rows[i].description>>]

\* everything the database holds for a case number
RowsOf(number) ==
    LET ids == {p.id : p \in ProcessRows(number)}
    IN  <<ProcessRows(number),
          {e \in events : e.process_id \in ids},
          {d \in documents : d.process_id \in ids}>>

\* the child rows of the process of result r are exactly those of r
ChildrenAre(r) ==
    \E p \in ProcessRows(r.process_number) :
        /\ EventPairs(p.id) = r.events
        /\ Cardinality(EventRows(p.id)) = Len(r.events)
        /\ \E d \in DocumentRows(p.id) :
              /\ DocumentRows(p.id) = {d}
              /\ d.file_name = r.stored_path
              /\ d.content = r.document_text

----------------------------------------------------------------------------
(* Claims                                                                    *)

\* C1: the processes table holds exactly one row per case number ever
\* imported: no two rows share a number or an id, every upsert leaves a row
\* for its case number, and every row of a state is there in the next state
\* with the same number and the same id.
C1_Step ==
    /\ \A p, q \in processes' : (p.number = q.number \/ p.id = q.id) => p = q
    /\ \A p \in processes : \E q \in processes' : q.number = p.number /\ q.id = p.id
    /\ (pc = "upsert" /\ pc' = "children")
          => \E q \in processes' :
                /\ q.number = results[persisted + 1].process_number
                /\ q.id = process_id'

\* C1: every step keeps one row per imported case number, with its first id
C1_OneRowStableId == [][C1_Step]_vars

\* a case number imported by an earlier run has been imported again
C1_Witness ==
    /\ pc = "idle"
    /\ persisted >= 1
    /\ \E p \in processes :
          /\ p.number = results[persisted].process_number
          /\ p.created_at < run
    /\ seq.processes > Cardinality(processes)

\* C2: once a result is persisted, the events of its process are exactly its
\* events, in parse order by ascending id, and its documents are exactly one
\* row with its stored file name and its full text; nothing of an earlier
\* import of that case number is left.
C2_ChildrenReplaced == persisted >= 1 => ChildrenAre(results[persisted])

\* a result with events was persisted over the children of an earlier import
C2_Witness ==
    /\ persisted >= 1
    /\ results[persisted].events # <<>>
    /\ seq.documents > Cardinality(documents)
    /\ seq.events > Cardinality(events)

\* C3: persisting a result for one case number leaves the process row, the
\* events and the documents of every other case number as they were.
C3_Step ==
    pc \in {"upsert", "children"}
        => \A p \in processes :
              p.number # results[persisted + 1].process_number
                 => RowsOf(p.number)' = RowsOf(p.number)

\* C3: every step of persisting a result leaves the other case numbers' rows
C3_OtherCasesUnchanged == [][C3_Step]_vars

\* a result was persisted while another case number had events and a document
C3_Witness ==
    /\ persisted >= 1
    /\ \E p \in processes :
          /\ p.number # results[persisted].process_number
          /\ EventRows(p.id) # {}
          /\ DocumentRows(p.id) # {}
          /\ \E q \in ProcessRows(results[persisted].process_number) : q.id > p.id

\* C4: after extract_text_from_pdf has returned or raised, its scratch
\* destination file does not exist.
C4_ScratchReleased == visited >= 1 => files[visited].name \notin scratch

C6_Step ==
    /\ (pc = "load" /\ visited < Len(files))
          => /\ \A j \in (visited + 2)..Len(files) :
                   LET n == files[j].name
                   IN  /\ (n \in DOMAIN storage') = (n \in DOMAIN storage)
                       /\ (n \in DOMAIN storage => storage'[n] = storage[n])
                       /\ (n \in scratch') = (n \in scratch)
             /\ err' # NoError
                   => pc' = "idle" /\ results' = results /\ visited' = visited + 1
    /\ (pc = "idle" \/ err # NoError)
          => /\ UNCHANGED <<fsvars, dbvars>>
             /\ (pc' = "idle" \/ run' = run + 1)

\* C6: every step aborts the run on the first failing document
C6_AbortOnFirstError == [][C6_Step]_vars

\* a run ended on a failing document with documents still to come
C6_Witness ==
    /\ pc = "idle"
    /\ err.kind \in {"PdfTextExtractionError", "BuildDbError"}
    /\ visited >= 1
    /\ visited < Len(files)
    /\ files[visited + 1].name \notin DOMAIN storage

\* C7: a document whose case number cannot be determined leaves no trace: no
\* copy of it in the storage directory and no row that holds its text.
C7_NoTrace ==
    (err = CaseNumberNotFound /\ source_dir # StorageDir)
        => LET d == files[visited]
           IN  /\ ~(d.name \in DOMAIN storage /\ storage[d.name] = d.text)
               /\ \A row \in documents : row.content # d.text

\* C8: when persisting a result fails, every result persisted before it in
\* the batch (the last one for its case number) still has its process row,
\* with its title and source path, and its events and document.
C8_EarlierResultsIntact ==
    err = SqliteError
        => \A j \in 1..persisted :
              (\A i \in (j + 1)..persisted :
                    results[i].process_number # results[j].process_number)
                 => /\ ChildrenAre(results[j])
                    /\ \E p \in ProcessRows(results[j].process_number) :
                          /\ p.title = results[j].title
                          /\ p.pdf_path = results[j].stored_path

\* the lines of a text: maximal runs without a newline, as (first, last) positions
LineStarts(t) == {p \in 1..Len(t) : AtLineStart(t, p)}

\* the line that starts at p has the dash form: a date, blanks, "-", a blank
\* and at least one more character
IsDashLine(t, p) ==
    LET a == p + Len(DatePattern)
        e == LineEnd(t, p)
    IN  /\ MatchesPattern(t, p, DatePattern)
        /\ \E d \in (a + 1)..(e - 2) :
              /\ \A i \in a..(d - 1) : t[i] = " "
              /\ t[d] = "-"
              /\ t[d + 1] = " "

\* the line that starts at p has the bare-date form: a date, blanks and a
\* description that does not start with "-"
IsBareDateLine(t, p) ==
    LET a == p + Len(DatePattern)
        e == LineEnd(t, p)
    IN  /\ MatchesPattern(t, p, DatePattern)
        /\ \E d \in (a + 1)..e :
              /\ \A i \in a..(d - 1) : t[i] = " "
              /\ t[d] \notin {" ", "-"}

\* C9: the two strategies exclude each other: when some line has the dash
\* form the dash-style matches are not empty; when they are not empty they
\* are the whole result, in the order of the scan, with no fallback match
\* added; when they are empty the result is the fallback matches.
C9_StrategiesExclusive ==
    out.done
        => LET primary  == MovementEvents(text, 1)
               fallback == FallbackEvents(text, 1)
           IN  /\ (\E p \in LineStarts(text) : IsDashLine(text, p)) => primary # <<>>
               /\ primary # <<>> => out.value = primary
               /\ primary = <<>> => out.value = fallback

\* a parsed text with a dash-form line and a bare-date line
C9_Witness ==
    /\ out.done
    /\ \E p \in LineStarts(text) : IsDashLine(text, p)
    /\ \E p \in LineStarts(text) : IsBareDateLine(text, p)
    /\ Len(out.value) = 1

\* the positions where the case-number pattern matches between word boundaries
DelimitedMatches(t) == {p \in 1..Len(t) : PROCESS_NUMBER_RE(t, p)}

\* the positions where a substring has the shape of a case number
ShapeMatches(t) == {p \in 1..Len(t) : ProcessNumberNoBoundary(t, p)}

First(S) == CHOOSE p \in S : \A q \in S : p <= q

\* C10 as amended: _parse_case_number returns verbatim the leftmost substring
\* that has the shape of a case number and is neither preceded nor followed
\* by a letter, a digit or an underscore, and raises exactly when the text
\* has no such substring.
C10_FirstDelimitedMatch ==
    out.done
        => IF DelimitedMatches(text) = {}
           THEN out.raised
           ELSE /\ ~out.raised
                /\ out.value = SubSeq(text, First(DelimitedMatches(text)),
                                      First(DelimitedMatches(text)) + Len(CasePattern) - 1)

\* a text with two different delimited case numbers has been parsed
C10_Witness ==
    /\ out.done
    /\ \E p, q \in DelimitedMatches(text) :
          /\ p < q
          /\ SubSeq(text, p, p + Len(CasePattern) - 1)
                # SubSeq(text, q, q + Len(CasePattern) - 1)

\* C10 as stated: the leftmost substring with the shape of a case number is
\* returned, and the call raises exactly when the text has no such substring.
C10_FirstShapeMatch ==
    out.done
        => IF ShapeMatches(text) = {}
           THEN out.raised
           ELSE /\ ~out.raised
                /\ out.value = SubSeq(text, First(ShapeMatches(text)),
                                      First(ShapeMatches(text)) + Len(CasePattern) - 1)

\* C11: when _get_process_id runs for a case number that already has a row,
\* that row keeps its id, its number and its created_at and takes the title
\* and the stored path of the new result; every other row is as it was and no
\* row is added.
C11_Step ==
    (pc = "upsert" /\ pc' = "children"
        /\ ProcessRows(results[persisted + 1].process_number) # {})
       => LET r == results[persisted + 1]
          IN  \E p \in processes : \E q \in processes' :
                 /\ p.number = r.process_number
                 /\ q.id = p.id
                 /\ q.number = p.number
                 /\ q.created_at = p.created_at
                 /\ q.title = r.title
                 /\ q.pdf_path = r.stored_path
                 /\ processes' \ {q} = processes \ {p}
                 /\ Cardinality(processes') = Cardinality(processes)

\* C11: the upsert of an existing case number changes title and pdf_path only
C11_UpsertFrame == [][C11_Step]_vars

\* the upsert has just given the row of an earlier run a title that is not
\* the title of the document still stored for it
C11_Witness ==
    /\ pc = "children"
    /\ \E p \in processes :
          /\ p.id = process_id
          /\ p.created_at < run
          /\ p.title = results[persisted + 1].title
          /\ p.pdf_path = results[persisted + 1].stored_path
          /\ \E d \in DocumentRows(p.id) :
                /\ _derive_title(d.content) # p.title
                /\ d.file_name # p.pdf_path

\* C12: a result is committed as one unit, so in every committed state of
\* the database each process row comes with the children of the result that
\* last wrote it: one document row that carries the row's stored file name.
C12_SingleCommit ==
    \A p \in processes :
        \E d \in documents :
            /\ DocumentRows(p.id) = {d}
            /\ d.file_name = p.pdf_path

\* build_database has returned normally from a run over all its files
RunCompleted ==
    /\ pc = "idle"
    /\ err = NoError
    /\ run >= 1
    /\ visited = Len(files)
    /\ Len(results) = Len(files)
    /\ persisted = Len(results)

\* the case number process_pdf finds in the i-th file of the run
NumberOfFile(i) == _parse_case_number(files[i].text).value

\* the file of the run that sorts last among those with the case number of
\* the i-th file
LastFileFor(i) ==
    LET same == {j \in 1..Len(files) : NumberOfFile(j) = NumberOfFile(i)}
    IN  files[CHOOSE j \in same : \A k \in same : files[k].name <= files[j].name]

\* C13: the files of a run are visited by ascending name and their results
\* persisted in that order, so after a completed run every case number of
\* the run has exactly one process row, and its title, stored path, events
\* and document are those of the file with the greatest name that carries it.
C13_LastNameWins ==
    RunCompleted
       => /\ \A i, j \in 1..Len(files) : i < j => files[i].name < files[j].name
          /\ \A i \in 1..Len(files) : results[i].stored_path = files[i].name
          /\ \A i \in 1..Len(files) :
                LET last == LastFileFor(i)
                IN  \E p \in processes : \E d \in documents :
                       /\ ProcessRows(NumberOfFile(i)) = {p}
                       /\ p.title = _derive_title(last.text)
                       /\ p.pdf_path = last.name
                       /\ EventPairs(p.id) = _parse_events(last.text)
                       /\ Cardinality(EventRows(p.id)) = Len(_parse_events(last.text))
                       /\ DocumentRows(p.id) = {d}
                       /\ d.file_name = last.name
                       /\ d.content = last.text

\* a run over two files with the same case number and different titles and
\* events has completed
C13_Witness ==
    /\ RunCompleted
    /\ Len(files) = 2
    /\ NumberOfFile(1) = NumberOfFile(2)
    /\ results[1].title # results[2].title
    /\ results[1].events # results[2].events

\* C15: the database is opened only when every file of the run has been
\* extracted and parsed: no step of the loading phase and no step outside a
\* run changes the schema, a table or an id sequence, and a document that
\* fails ends the run at once with the database as it was, while the copies
\* of the files visited so far are in the storage directory.
C15_Step ==
    /\ (pc = "load" /\ dbvars' # dbvars)
          => /\ visited = Len(files)
             /\ Len(results) = Len(files)
             /\ err = NoError
    /\ pc = "idle" => dbvars' = dbvars
    /\ (pc = "load" /\ err' # NoError)
          => /\ pc' = "idle"
             /\ dbvars' = dbvars
             /\ persisted' = 0
             /\ \A i \in 1..visited' : files[i].name \in DOMAIN storage'

\* C15: a run in which a document fails extraction or parsing writes nothing
\* to the database
C15_NoWriteOnLoadFailure == [][C15_Step]_vars

\* the second file of a run failed after the first was copied and parsed; the
\* database holds what an earlier run imported and nothing of the first file
C15_Witness ==
    /\ pc = "idle"
    /\ err \notin {NoError, SqliteError}
    /\ source_dir = "in"
    /\ visited = 2
    /\ Len(results) = 1
    /\ files[1].name \in DOMAIN storage
    /\ storage[files[1].name] = results[1].document_text
    /\ processes # {}
    /\ ProcessRows(results[1].process_number) = {}

\* the case numbers of the process rows an appointment references
NumbersOf(a, rows) == {p.number : p \in {q \in rows : q.id = a.process_id}}

\* C14: a step of build_database leaves the appointments table as it is, and
\* across every step each appointment references exactly one process row,
\* whose case number is in the next state the one it was.
C14_Step ==
    /\ runvars' # runvars => appointments' = appointments
    /\ \A a \in appointments' : Cardinality(NumbersOf(a, processes')) = 1
    /\ \A a \in appointments \cap appointments' :
          NumbersOf(a, processes') = NumbersOf(a, processes)

\* C14: imports never change an appointment nor the case it belongs to
C14_AppointmentsKept == [][C14_Step]_vars

\* an appointment references a process row whose case number has just been
\* imported again: the upsert is committed and the children are being replaced
C14_Witness ==
    /\ pc = "children"
    /\ seq.processes > Cardinality(processes)
    /\ \E a \in appointments : a.process_id = process_id
    /\ \E d \in DocumentRows(process_id) :
          d.file_name # results[persisted + 1].stored_path

====
